---- MODULE Spec2Model ----
(***************************************************************************)
(* Travel planner for Sri Lanka: the season/budget filter and route        *)
(* computation of app/experta_kb.py (recommend_trip, _build_graph,         *)
(* _dijkstra) and the pathfinding of app/kb/algorithms.py over the road    *)
(* network of app/kb/data.py.                                              *)
(*                                                                         *)
(* Python values are modelled as follows.  A str is a TLA+ string; None    *)
(* and the empty string (both falsy) are the empty string.  A list is a    *)
(* sequence.  A dict is a sequence of <<key, value>> pairs in insertion    *)
(* order.  Strings are compared for order through NameOrder, the           *)
(* lexicographic order of every name that occurs in the model.             *)
(***************************************************************************)
EXTENDS Integers, Sequences, FiniteSets, TLC

(***************************************************************************)
(* Knowledge base of app/experta_kb.py                                     *)
(***************************************************************************)
CITIES ==
  <<
    "colombo", "galle", "mirissa", "hambantota", "kandy", "nuwara_eliya", "ella",
    "anuradhapura", "sigiriya", "yala", "horton_plains", "jaffna", "trincomalee", "arugam_bay",
    "polonnaruwa", "dambulla", "bentota", "negombo", "matara", "badulla"
  >>

BUDGETS ==
  <<
    <<"mirissa", "moderate">>, <<"nuwara_eliya", "high">>, <<"kandy", "moderate">>,
    <<"ella", "budget">>, <<"colombo", "variable">>, <<"galle", "moderate">>,
    <<"negombo", "budget">>, <<"bentota", "moderate">>, <<"anuradhapura", "budget">>,
    <<"sigiriya", "moderate">>, <<"polonnaruwa", "budget">>, <<"dambulla", "budget">>,
    <<"trincomalee", "moderate">>, <<"jaffna", "moderate">>, <<"arugam_bay", "budget">>,
    <<"matara", "budget">>, <<"badulla", "budget">>
  >>

BEST_SEASON ==
  <<
    <<"mirissa", "winter">>, <<"ella", "summer">>, <<"kandy", "all_year">>,
    <<"nuwara_eliya", "all_year">>, <<"galle", "winter">>, <<"yala", "winter">>,
    <<"arugam_bay", "summer">>, <<"trincomalee", "summer">>, <<"jaffna", "summer">>,
    <<"negombo", "all_year">>, <<"bentota", "winter">>, <<"anuradhapura", "all_year">>,
    <<"sigiriya", "all_year">>, <<"polonnaruwa", "all_year">>, <<"dambulla", "all_year">>,
    <<"horton_plains", "all_year">>, <<"matara", "winter">>, <<"badulla", "summer">>
  >>

DISTANCES ==
  <<
    <<"colombo", "kandy", 115>>, <<"kandy", "nuwara_eliya", 77>>,
    <<"nuwara_eliya", "ella", 60>>, <<"colombo", "mirissa", 155>>, <<"colombo", "galle", 119>>,
    <<"galle", "mirissa", 36>>, <<"ella", "yala", 130>>, <<"colombo", "anuradhapura", 205>>,
    <<"anuradhapura", "sigiriya", 22>>, <<"kandy", "sigiriya", 90>>,
    <<"kandy", "horton_plains", 60>>, <<"mirissa", "matara", 12>>,
    <<"matara", "hambantota", 80>>, <<"hambantota", "yala", 60>>, <<"colombo", "negombo", 34>>,
    <<"negombo", "kandy", 100>>, <<"kandy", "dambulla", 72>>, <<"dambulla", "sigiriya", 17>>,
    <<"sigiriya", "polonnaruwa", 60>>, <<"polonnaruwa", "trincomalee", 107>>,
    <<"kandy", "badulla", 137>>, <<"badulla", "ella", 28>>,
    <<"trincomalee", "anuradhapura", 110>>, <<"anuradhapura", "jaffna", 200>>,
    <<"arugam_bay", "yala", 160>>, <<"arugam_bay", "ella", 165>>, <<"bentota", "galle", 56>>,
    <<"bentota", "colombo", 65>>
  >>

\* COORDS: latitude and longitude of each city, in units of 0.0001 degree
COORDS ==
  <<
    <<"colombo", [lat |-> 69271, lon |-> 798612]>>, <<"galle", [lat |-> 60535, lon |-> 802210]>>,
    <<"mirissa", [lat |-> 59485, lon |-> 804719]>>,
    <<"hambantota", [lat |-> 61246, lon |-> 811210]>>,
    <<"kandy", [lat |-> 72906, lon |-> 806337]>>,
    <<"nuwara_eliya", [lat |-> 69497, lon |-> 807891]>>,
    <<"ella", [lat |-> 68755, lon |-> 810460]>>,
    <<"anuradhapura", [lat |-> 83114, lon |-> 804037]>>,
    <<"sigiriya", [lat |-> 79570, lon |-> 807603]>>, <<"yala", [lat |-> 63667, lon |-> 815167]>>,
    <<"horton_plains", [lat |-> 68020, lon |-> 807998]>>,
    <<"jaffna", [lat |-> 96615, lon |-> 800255]>>,
    <<"trincomalee", [lat |-> 85874, lon |-> 812152]>>,
    <<"arugam_bay", [lat |-> 68390, lon |-> 818386]>>,
    <<"polonnaruwa", [lat |-> 79396, lon |-> 810003]>>,
    <<"dambulla", [lat |-> 78568, lon |-> 806490]>>,
    <<"bentota", [lat |-> 64210, lon |-> 800011]>>, <<"negombo", [lat |-> 72083, lon |-> 798358]>>,
    <<"matara", [lat |-> 59549, lon |-> 805550]>>, <<"badulla", [lat |-> 69897, lon |-> 810550]>>
  >>

(***************************************************************************)
(* Road network of app/kb/data.py: Connection(city_a, city_b, distance_km) *)
(***************************************************************************)
CONNECTIONS_DATA ==
  <<
    <<"colombo", "negombo", 34>>, <<"colombo", "galle", 119>>, <<"colombo", "bentota", 65>>,
    <<"bentota", "galle", 56>>, <<"galle", "mirissa", 36>>, <<"mirissa", "matara", 12>>,
    <<"matara", "hambantota", 80>>, <<"colombo", "kandy", 115>>, <<"negombo", "kandy", 100>>,
    <<"kandy", "nuwara_eliya", 77>>, <<"nuwara_eliya", "ella", 60>>,
    <<"kandy", "badulla", 137>>, <<"badulla", "ella", 28>>, <<"kandy", "horton_plains", 60>>,
    <<"colombo", "anuradhapura", 205>>, <<"kandy", "dambulla", 72>>,
    <<"dambulla", "sigiriya", 17>>, <<"kandy", "sigiriya", 90>>,
    <<"anuradhapura", "sigiriya", 22>>, <<"sigiriya", "polonnaruwa", 60>>,
    <<"polonnaruwa", "trincomalee", 107>>, <<"trincomalee", "anuradhapura", 110>>,
    <<"anuradhapura", "jaffna", 200>>, <<"ella", "yala", 130>>, <<"hambantota", "yala", 60>>,
    <<"arugam_bay", "yala", 160>>, <<"arugam_bay", "ella", 165>>,
    <<"colombo", "kalutara", 43>>, <<"kalutara", "bentota", 22>>, <<"galle", "hikkaduwa", 18>>,
    <<"hikkaduwa", "bentota", 38>>, <<"galle", "unawatuna", 6>>, <<"negombo", "gampaha", 18>>,
    <<"gampaha", "colombo", 30>>, <<"colombo", "kurunegala", 94>>,
    <<"kurunegala", "chilaw", 50>>, <<"chilaw", "puttalam", 33>>,
    <<"puttalam", "anuradhapura", 90>>, <<"kurunegala", "dambulla", 70>>,
    <<"kurunegala", "kandy", 42>>, <<"negombo", "chilaw", 60>>,
    <<"colombo", "ratnapura", 101>>, <<"ratnapura", "nuwara_eliya", 110>>,
    <<"ratnapura", "ella", 130>>, <<"kegalle", "colombo", 78>>, <<"kegalle", "kandy", 37>>,
    <<"kegalle", "kurunegala", 43>>, <<"kegalle", "ratnapura", 75>>, <<"kandy", "matale", 26>>,
    <<"matale", "dambulla", 43>>, <<"matale", "sigiriya", 54>>, <<"ella", "haputale", 16>>,
    <<"haputale", "bandarawela", 9>>, <<"bandarawela", "badulla", 25>>,
    <<"badulla", "monaragala", 60>>, <<"monaragala", "yala", 90>>,
    <<"monaragala", "arugam_bay", 98>>, <<"trincomalee", "nilaveli", 16>>,
    <<"trincomalee", "batticaloa", 108>>, <<"batticaloa", "passikudah", 35>>,
    <<"batticaloa", "kalmunai", 38>>, <<"batticaloa", "ampara", 33>>,
    <<"ampara", "arugam_bay", 115>>, <<"kalmunai", "arugam_bay", 80>>,
    <<"jaffna", "kilinochchi", 60>>, <<"kilinochchi", "vavuniya", 58>>,
    <<"vavuniya", "anuradhapura", 70>>, <<"jaffna", "mannar", 132>>,
    <<"mannar", "vavuniya", 86>>, <<"mannar", "puttalam", 150>>,
    <<"kilinochchi", "mullativu", 48>>
  >>

(***************************************************************************)
(* Every name of the model in Python's str order; "atlantis" is a name     *)
(* that is a city of neither knowledge base.                               *)
(***************************************************************************)
NameOrder ==
  <<
    "ampara", "anuradhapura", "arugam_bay", "atlantis", "badulla", "bandarawela", "batticaloa",
    "bentota", "chilaw", "colombo", "dambulla", "ella", "galle", "gampaha", "hambantota",
    "haputale", "hikkaduwa", "horton_plains", "jaffna", "kalmunai", "kalutara", "kandy",
    "kegalle", "kilinochchi", "kurunegala", "mannar", "matale", "matara", "mirissa",
    "monaragala", "mullativu", "negombo", "nilaveli", "nuwara_eliya", "passikudah",
    "polonnaruwa", "puttalam", "ratnapura", "sigiriya", "trincomalee", "unawatuna", "vavuniya",
    "yala"
  >>

(***************************************************************************)
(* Python values                                                           *)
(***************************************************************************)
\* None and '' : the falsy values a start or an end can take
None == ""

\* a name that is a city of neither knowledge base
UnknownCity == "atlantis"

Range(s) == {s[i] : i \in DOMAIN s}

\* position of a name in Python's str order
Rank == [n \in Range(NameOrder) |-> CHOOSE i \in DOMAIN NameOrder : NameOrder[i] = n]

\* a < b on str
StrLess(a, b) == Rank[a] < Rank[b]

\* a or b
Or(a, b) == IF a # None THEN a ELSE b

\* k in d
HasKey(d, k) == \E i \in DOMAIN d : d[i][1] = k

\* the position of key k in d
IndexOf(d, k) == CHOOSE i \in DOMAIN d : d[i][1] = k

\* d.get(k, default)
DictGet(d, k, default) == IF HasKey(d, k) THEN d[IndexOf(d, k)][2] ELSE default

\* d[k] = v : a present key keeps its position, a new key goes last
DictPut(d, k, v) == IF HasKey(d, k) THEN [d EXCEPT ![IndexOf(d, k)] = <<k, v>>] ELSE Append(d, <<k, v>>)

\* d.keys()
Keys(d) == {d[i][1] : i \in DOMAIN d}

\* {} : the dict without keys
EmptyDict == <<>>

(***************************************************************************)
(* Graph construction: the graph maps a city to the dict of its            *)
(* neighbours, each with its distance.                                     *)
(***************************************************************************)
\* g.setdefault(a, {})[b] = d
SetDefaultPut(g, a, b, d) == DictPut(g, a, DictPut(DictGet(g, a, EmptyDict), b, d))

RECURSIVE AddConnections(_, _, _)
\* the loop over the connection list: both directions of each connection.
\* (The test on Len(g) is TRUE in every iteration; it makes TLC evaluate g
\* before the next iteration instead of building a chain of pending updates.)
AddConnections(conns, i, g) ==
  IF i > Len(conns) \/ Len(g) < 0
  THEN g
  ELSE LET a == conns[i][1]
           b == conns[i][2]
           d == conns[i][3]
       IN  AddConnections(conns, i + 1, SetDefaultPut(SetDefaultPut(g, a, b, d), b, a, d))

\* app/experta_kb.py _build_graph()
_build_graph == AddConnections(DISTANCES, 1, EmptyDict)

\* app/kb/algorithms.py build_distance_graph()
build_distance_graph == AddConnections(CONNECTIONS_DATA, 1, EmptyDict)

(***************************************************************************)
(* heapq over tuples (distance, city, path): the heap is the set of its    *)
(* entries and heappop takes the least entry in tuple order.               *)
(***************************************************************************)
RECURSIVE ListLess(_, _)
\* p < q on lists of str
ListLess(p, q) ==
  IF p = <<>> THEN q # <<>>
  ELSE IF q = <<>> THEN FALSE
  ELSE IF p[1] = q[1] THEN ListLess(Tail(p), Tail(q))
  ELSE StrLess(p[1], q[1])

\* an order on tuples (dist, node, path) that puts the greater name first among equal dist
TupleLessGreaterName(e1, e2) ==
  \/ e1.dist < e2.dist
  \/ /\ e1.dist = e2.dist
     /\ \/ StrLess(e2.node, e1.node)
        \/ e1.node = e2.node /\ ListLess(e1.path, e2.path)

\* e1 < e2 on tuples (dist, node, path)
TupleLess(e1, e2) ==
  \/ e1.dist < e2.dist
  \/ /\ e1.dist = e2.dist
     /\ \/ StrLess(e1.node, e2.node)
        \/ e1.node = e2.node /\ ListLess(e1.path, e2.path)

\* a pop that takes the greatest entry instead of the least
heappop_greatest(queue) == CHOOSE e \in queue : \A o \in queue \ {e} : TupleLess(o, e)

\* heapq.heappop(queue): the entry it returns
heappop(queue) == CHOOSE e \in queue : \A o \in queue \ {e} : TupleLess(e, o)

\* the result of a path search; raised is TRUE when the search ended in an exception
PathResult(path, dist) == [path |-> path, dist |-> dist, raised |-> FALSE]
Raised == [path |-> <<>>, dist |-> 0, raised |-> TRUE]

(***************************************************************************)
(* app/experta_kb.py _dijkstra                                             *)
(***************************************************************************)
\* graph[node] in place of graph.get(node, {}) : a missing node raises KeyError
GraphIndex(graph, node) ==
  [raised |-> ~HasKey(graph, node), items |-> DictGet(graph, node, EmptyDict)]

\* graph.get(node, {}) : a missing node has no neighbours
GraphGet(graph, node) ==
  [raised |-> FALSE, items |-> DictGet(graph, node, EmptyDict)]

RECURSIVE RelaxNeighbours(_, _, _, _, _)
\* for neigh, w in graph.get(node, {}).items(): ...
RelaxNeighbours(items, i, dist, path, st) ==
  IF i > Len(items)
  THEN st
  ELSE LET neigh == items[i][1]
           w == items[i][2]
           nd == dist + w
       IN  IF ~HasKey(st.seen, neigh) \/ nd < DictGet(st.seen, neigh, 0)
           THEN RelaxNeighbours(items, i + 1, dist, path,
                  [seen |-> DictPut(st.seen, neigh, nd),
                   queue |-> st.queue \cup {[dist |-> nd, node |-> neigh, path |-> Append(path, neigh)]}])
           ELSE RelaxNeighbours(items, i + 1, dist, path, st)

RECURSIVE DijkstraLoop(_, _, _, _)
\* while queue: ...
DijkstraLoop(graph, target, queue, seen) ==
  IF queue = {}
  THEN PathResult(<<>>, 0)
  ELSE LET e == heappop(queue)
           adj == GraphGet(graph, e.node)
       IN  IF e.node = target
           THEN PathResult(e.path, e.dist)
           ELSE IF adj.raised
           THEN Raised
           ELSE LET st == RelaxNeighbours(adj.items, 1, e.dist, e.path,
                                          [seen |-> seen, queue |-> queue \ {e}])
                IN  DijkstraLoop(graph, target, st.queue, st.seen)

_dijkstra(graph, source, target) ==
  IF source = target
  THEN PathResult(<<source>>, 0)
  ELSE DijkstraLoop(graph, target,
                    {[dist |-> 0, node |-> source, path |-> <<source>>]}, <<<<source, 0>>>>)

(***************************************************************************)
(* app/kb/algorithms.py dijkstra_shortest_path                             *)
(***************************************************************************)
RECURSIVE ExploreNeighbours(_, _, _, _, _)
\* for neighbor, edge_weight in graph.get(current_city, {}).items(): ...
ExploreNeighbours(items, i, current_dist, path, st) ==
  IF i > Len(items)
  THEN st
  ELSE LET neighbor == items[i][1]
           edge_weight == items[i][2]
           new_distance == current_dist + edge_weight
       IN  IF ~HasKey(st.distances, neighbor) \/ new_distance < DictGet(st.distances, neighbor, 0)
           THEN ExploreNeighbours(items, i + 1, current_dist, path,
                  [distances |-> DictPut(st.distances, neighbor, new_distance),
                   queue |-> st.queue \cup
                     {[dist |-> new_distance, node |-> neighbor, path |-> Append(path, neighbor)]}])
           ELSE ExploreNeighbours(items, i + 1, current_dist, path, st)

RECURSIVE ShortestPathLoop(_, _, _, _)
\* while queue: ...
ShortestPathLoop(graph, target, queue, distances) ==
  IF queue = {}
  THEN PathResult(<<>>, 0)
  ELSE LET e == heappop(queue)
           rest == queue \ {e}
       IN  IF e.node = target
           THEN PathResult(e.path, e.dist)
           ELSE IF HasKey(distances, e.node) /\ e.dist > DictGet(distances, e.node, 0)
           THEN ShortestPathLoop(graph, target, rest, distances)
           ELSE LET st == ExploreNeighbours(DictGet(graph, e.node, EmptyDict), 1, e.dist, e.path,
                                            [distances |-> distances, queue |-> rest])
                IN  ShortestPathLoop(graph, target, st.queue, st.distances)

\* dijkstra_shortest_path without a route from a city to itself: no path
dijkstra_shortest_path_no_self_route(graph, source, target) ==
  IF source = target \/ ~HasKey(graph, source) \/ ~HasKey(graph, target)
  THEN PathResult(<<>>, 0)
  ELSE ShortestPathLoop(graph, target,
                        {[dist |-> 0, node |-> source, path |-> <<source>>]}, <<<<source, 0>>>>)

dijkstra_shortest_path(graph, source, target) ==
  IF source = target
  THEN PathResult(<<source>>, 0)
  ELSE IF ~HasKey(graph, source) \/ ~HasKey(graph, target)
  THEN PathResult(<<>>, 0)
  ELSE ShortestPathLoop(graph, target,
                        {[dist |-> 0, node |-> source, path |-> <<source>>]}, <<<<source, 0>>>>)

(***************************************************************************)
(* app/kb/algorithms.py get_cities_within_distance: the heap holds tuples  *)
(* (distance, city).                                                       *)
(***************************************************************************)
\* e1 < e2 on tuples (dist, node)
PairLess(e1, e2) ==
  \/ e1.dist < e2.dist
  \/ e1.dist = e2.dist /\ StrLess(e1.node, e2.node)

\* heapq.heappop(queue) on tuples (dist, node): the entry it returns
heappop_pair(queue) == CHOOSE e \in queue : \A o \in queue \ {e} : PairLess(e, o)

RECURSIVE ReachNeighbours(_, _, _, _, _)
\* for neighbor, edge_weight in graph.get(current_city, {}).items(): ...
ReachNeighbours(items, i, current_dist, max_distance, st) ==
  IF i > Len(items)
  THEN st
  ELSE LET neighbor == items[i][1]
           edge_weight == items[i][2]
           new_distance == current_dist + edge_weight
       IN  IF /\ new_distance <= max_distance
              /\ ~HasKey(st.distances, neighbor) \/ new_distance < DictGet(st.distances, neighbor, 0)
           THEN ReachNeighbours(items, i + 1, current_dist, max_distance,
                  [distances |-> DictPut(st.distances, neighbor, new_distance),
                   queue |-> st.queue \cup {[dist |-> new_distance, node |-> neighbor]}])
           ELSE ReachNeighbours(items, i + 1, current_dist, max_distance, st)

RECURSIVE WithinLoop(_, _, _, _)
\* while queue: ...
WithinLoop(graph, max_distance, queue, distances) ==
  IF queue = {}
  THEN distances
  ELSE LET e == heappop_pair(queue)
           rest == queue \ {e}
       IN  IF e.dist > max_distance
           THEN WithinLoop(graph, max_distance, rest, distances)
           ELSE IF HasKey(distances, e.node) /\ e.dist > DictGet(distances, e.node, 0)
           THEN WithinLoop(graph, max_distance, rest, distances)
           ELSE LET st == ReachNeighbours(DictGet(graph, e.node, EmptyDict), 1, e.dist,
                                          max_distance, [distances |-> distances, queue |-> rest])
                IN  WithinLoop(graph, max_distance, st.queue, st.distances)

\* get_cities_within_distance that counts a city at exactly max_distance as too far
get_cities_within_distance_exclusive(graph, source, max_distance) ==
  IF ~HasKey(graph, source)
  THEN EmptyDict
  ELSE WithinLoop(graph, max_distance - 1, {[dist |-> 0, node |-> source]}, <<<<source, 0>>>>)

get_cities_within_distance(graph, source, max_distance) ==
  IF ~HasKey(graph, source)
  THEN EmptyDict
  ELSE WithinLoop(graph, max_distance, {[dist |-> 0, node |-> source]}, <<<<source, 0>>>>)

(***************************************************************************)
(* app/kb/algorithms.py find_all_paths: a path entry is (path, distance).  *)
(***************************************************************************)
RECURSIVE dfs(_, _, _, _, _, _, _, _)
RECURSIVE DfsNeighbours(_, _, _, _, _, _, _, _, _)
\* dfs(current, visited, path, distance): the list `paths` after the call
dfs(graph, target, max_paths, current, visited, path, distance, paths) ==
  IF Len(paths) >= max_paths
  THEN paths
  ELSE IF current = target
  THEN Append(paths, <<path, distance>>)
  ELSE IF ~HasKey(graph, current)
  THEN paths
  ELSE DfsNeighbours(graph, target, max_paths, DictGet(graph, current, EmptyDict), 1,
                     visited, path, distance, paths)

\* for neighbor, edge_dist in graph[current].items(): ...
DfsNeighbours(graph, target, max_paths, items, i, visited, path, distance, paths) ==
  IF i > Len(items)
  THEN paths
  ELSE LET neighbor == items[i][1]
           edge_dist == items[i][2]
       IN  IF neighbor \notin visited
           THEN DfsNeighbours(graph, target, max_paths, items, i + 1, visited, path, distance,
                  dfs(graph, target, max_paths, neighbor, visited \cup {neighbor},
                      Append(path, neighbor), distance + edge_dist, paths))
           ELSE DfsNeighbours(graph, target, max_paths, items, i + 1, visited, path, distance, paths)

\* where list.sort puts entry e among the already sorted entries: after every entry
\* whose distance is not greater
InsertByDistance(sorted, e) ==
  LET k == Cardinality({i \in DOMAIN sorted : sorted[i][2] <= e[2]})
  IN  SubSeq(sorted, 1, k) \o <<e>> \o SubSeq(sorted, k + 1, Len(sorted))

RECURSIVE SortPathsFrom(_, _, _)
SortPathsFrom(list, i, sorted) ==
  IF i > Len(list) THEN sorted ELSE SortPathsFrom(list, i + 1, InsertByDistance(sorted, list[i]))

\* paths.sort(key=lambda x: x[1]) : ascending by distance, stable
sort_paths(list) == SortPathsFrom(list, 1, <<>>)

\* find_all_paths without the final sort: the paths in the order the search found them
find_all_paths_unsorted(graph, source, target, max_paths) ==
  dfs(graph, target, max_paths, source, {source}, <<source>>, 0, <<>>)

find_all_paths(graph, source, target, max_paths) ==
  sort_paths(dfs(graph, target, max_paths, source, {source}, <<source>>, 0, <<>>))

(***************************************************************************)
(* app/kb/entities.py and the import of app/kb/data.py.  A City is a       *)
(* record of its name, latitude and longitude (in whole degrees); a        *)
(* Connection is <<city_a, city_b, distance_km>>.                          *)
(***************************************************************************)
\* City.__post_init__ raises ValueError
CityRaises(city) ==
  \/ ~(-90 <= city.latitude /\ city.latitude <= 90)
  \/ ~(-180 <= city.longitude /\ city.longitude <= 180)

\* Connection.__post_init__ raises ValueError
ConnectionRaises(connection) == connection[3] <= 0

RECURSIVE ByName(_, _, _)
\* {city.name: city for city in CITIES_DATA}
ByName(cities, i, d) ==
  IF i > Len(cities) THEN d ELSE ByName(cities, i + 1, DictPut(d, cities[i].name, cities[i]))

\* no module app.kb.data: the import has not happened, or it raised
Unloaded == [loaded |-> FALSE]

\* import app.kb.data with the given seed lists: CITIES_DATA, then CONNECTIONS_DATA, then
\* CITIES_BY_NAME; an exception in any constructor leaves no module at all
ImportData(cities, connections) ==
  IF \/ \E i \in DOMAIN cities : CityRaises(cities[i])
     \/ \E i \in DOMAIN connections : ConnectionRaises(connections[i])
  THEN Unloaded
  ELSE [loaded |-> TRUE, cities |-> cities, connections |-> connections,
        by_name |-> ByName(cities, 1, EmptyDict)]

(***************************************************************************)
(* app/kb/rules.py: TravelRecommendationEngine.  A Fact is a record of its *)
(* keys.  The engine is its fact list, the activations that have fired,    *)
(* and the three sets of the instance.  An activation is a rule with the   *)
(* facts that matched its patterns; the agenda holds the activations that  *)
(* match the fact list and have not fired.                                 *)
(***************************************************************************)
\* the fact that engine.reset() declares
InitialFact == [initial |-> TRUE]

\* no city of that name: get_city returned None
NoCity == [name |-> None]

\* a lookup that finds no city under any name
get_city_unknown(cities, name) == NoCity

\* get_city(name), over the CITIES_BY_NAME of the given cities
get_city(cities, name) == DictGet(ByName(cities, 1, EmptyDict), name, NoCity)

\* interest_map of recommend_by_interest
interest_map ==
  <<
    <<"beach", "beach">>, <<"culture", "cultural">>, <<"history", "historical">>,
    <<"nature", "national_park">>, <<"hiking", "hill_country">>
  >>

\* the facts that match Fact(preference=name, value=MATCH.x)
Preferences(wm, name) ==
  {f \in wm : {"preference", "value"} \subseteq DOMAIN f /\ f.preference = name}

\* a pattern that binds the value instead of testing it
PreferencesIgnoringValue(wm, name, value) == Preferences(wm, name)

\* the facts that match Fact(preference=name, value=value)
PreferencesOf(wm, name, value) == {f \in Preferences(wm, name) : f.value = value}

\* the facts that match Fact(city=MATCH.city, ...) with the given further keys
CityFactsWith(wm, keys) == {f \in wm : ({"city"} \cup keys) \subseteq DOMAIN f}

\* the facts that have the given key
FactsWith(wm, key) == {f \in wm : key \in DOMAIN f}

\* NOT(Fact(avoided=city))
NotAvoided(wm, city) == ~\E f \in FactsWith(wm, "avoided") : f.avoided = city

\* the activations of a rule with two patterns
Pairs(rule, first, second) == {[rule |-> rule, facts |-> <<p, c>>] : p \in first, c \in second}

\* every activation that matches the fact list
Matches(wm) ==
  Pairs("recommend_exact_season_match",
        Preferences(wm, "season"), CityFactsWith(wm, {"best_season"}))
  \cup Pairs("recommend_all_year_for_any_season",
             PreferencesOf(wm, "season", "all_year"), CityFactsWith(wm, {}))
  \cup Pairs("avoid_east_coast_in_winter",
             PreferencesOf(wm, "season", "winter"),
             {c \in CityFactsWith(wm, {"region"}) : c.region = "east"})
  \cup Pairs("avoid_west_south_in_summer",
             PreferencesOf(wm, "season", "summer"),
             {c \in CityFactsWith(wm, {"region"}) : c.region \in {"west", "south"}})
  \cup Pairs("recommend_budget_match",
             Preferences(wm, "budget"), CityFactsWith(wm, {"budget_level"}))
  \cup Pairs("all_budgets_for_variable",
             PreferencesOf(wm, "budget", "variable"), CityFactsWith(wm, {}))
  \cup Pairs("avoid_expensive_for_budget",
             PreferencesOf(wm, "budget", "budget"),
             {c \in CityFactsWith(wm, {"budget_level"}) : c.budget_level = "high"})
  \cup Pairs("recommend_by_interest",
             Preferences(wm, "interests"), CityFactsWith(wm, {"city_type"}))
  \cup {a \in {[rule |-> "final_recommendation", facts |-> <<r, b>>] :
                 r \in FactsWith(wm, "recommended"), b \in FactsWith(wm, "budget_appropriate")} :
          /\ a.facts[2].budget_appropriate = a.facts[1].recommended
          /\ NotAvoided(wm, a.facts[1].recommended)}
  \cup {a \in {[rule |-> "preferred_recommendation", facts |-> <<r, b, i>>] :
                 r \in FactsWith(wm, "recommended"), b \in FactsWith(wm, "budget_appropriate"),
                 i \in FactsWith(wm, "interest_match")} :
          /\ a.facts[2].budget_appropriate = a.facts[1].recommended
          /\ a.facts[3].interest_match = a.facts[1].recommended
          /\ NotAvoided(wm, a.facts[1].recommended)}

\* an agenda that keeps an activation after it has fired
AgendaKeepingFired(e) == Matches(e.facts)

\* the agenda: the activations that match the fact list and have not fired
Agenda(e) == Matches(e.facts) \ e.fired

\* a body that adds the city to its set and declares no fact
DoesWithoutDeclare(declare, recommended, avoided, preferred) ==
  [declare |-> {}, recommended |-> recommended, avoided |-> avoided, preferred |-> preferred]

\* what the body of a rule does: the facts it declares and the cities it adds to the sets
Does(declare, recommended, avoided, preferred) ==
  [declare |-> declare, recommended |-> recommended, avoided |-> avoided, preferred |-> preferred]

Nothing == Does({}, {}, {}, {})

\* the body of the rule of activation a, run on engine e with the given cities of the KB
Body(a, e, cities) ==
  LET city == IF a.rule \in {"final_recommendation", "preferred_recommendation"}
              THEN a.facts[1].recommended
              ELSE a.facts[2].city
      city_obj == get_city(cities, city)
  IN  CASE a.rule = "recommend_exact_season_match" ->
             IF a.facts[1].value = a.facts[2].best_season
             THEN Does({[recommended |-> city, reason |-> "perfect_season_match"]}, {city}, {}, {})
             ELSE Nothing
        [] a.rule = "recommend_all_year_for_any_season" ->
             IF city_obj # NoCity /\ city_obj.best_season = "all_year"
             THEN Does({[recommended |-> city, reason |-> "all_year_destination"]}, {city}, {}, {})
             ELSE Nothing
        [] a.rule = "avoid_east_coast_in_winter" ->
             Does({[avoided |-> city, reason |-> "northeast_monsoon"]}, {}, {city}, {})
        [] a.rule = "avoid_west_south_in_summer" ->
             IF city_obj # NoCity /\ city_obj.best_season # "all_year"
             THEN Does({[avoided |-> city, reason |-> "southwest_monsoon"]}, {}, {city}, {})
             ELSE Nothing
        [] a.rule = "recommend_budget_match" ->
             IF a.facts[1].value = a.facts[2].budget_level \/ a.facts[2].budget_level = "variable"
             THEN Does({[budget_appropriate |-> city]}, {}, {}, {})
             ELSE Nothing
        [] a.rule = "all_budgets_for_variable" ->
             Does({[budget_appropriate |-> city]}, {}, {}, {})
        [] a.rule = "avoid_expensive_for_budget" ->
             IF city \notin e.recommended_cities
             THEN Does({[budget_mismatch |-> city]}, {}, {}, {})
             ELSE Nothing
        [] a.rule = "recommend_by_interest" ->
             IF DictGet(interest_map, a.facts[1].value, None) = a.facts[2].city_type
             THEN Does({[interest_match |-> city]}, {}, {}, {city})
             ELSE Nothing
        [] a.rule = "final_recommendation" ->
             Does({[final_recommended |-> city]}, {}, {}, {})
        [] a.rule = "preferred_recommendation" ->
             Does({[highly_recommended |-> city]}, {}, {}, {})

\* the engine after activation a has fired
FireRule(e, a, cities) ==
  LET does == Body(a, e, cities)
  IN  [facts |-> e.facts \cup does.declare,
       fired |-> e.fired \cup {a},
       recommended_cities |-> e.recommended_cities \cup does.recommended,
       avoided_cities |-> e.avoided_cities \cup does.avoided,
       preferred_cities |-> e.preferred_cities \cup does.preferred]

\* no engine has been created
NoEngine ==
  [facts |-> {}, fired |-> {}, recommended_cities |-> {}, avoided_cities |-> {},
   preferred_cities |-> {}]

\* Fact(city=city.name, best_season=..., budget_level=..., city_type=..., region=...)
CityFact(c) ==
  [city |-> c.name, best_season |-> c.best_season, budget_level |-> c.budget_level,
   city_type |-> c.city_type, region |-> c.region]

\* create_engine_with_preferences up to engine.run(): the new engine with its declared facts
NewEngine(season, budget, interests, cities) ==
  [NoEngine EXCEPT !.facts =
     {InitialFact, [preference |-> "season", value |-> season],
      [preference |-> "budget", value |-> budget]}
     \cup {[preference |-> "interests", value |-> interests[i]] : i \in DOMAIN interests}
     \cup {CityFact(cities[i]) : i \in DOMAIN cities}]

\* fact.get(key) of every fact where it is truthy
FactValues(wm, key) == {f[key] : f \in {g \in FactsWith(wm, key) : g[key] # None}}

\* engine.get_recommendations()
get_recommendations(e) ==
  [recommended |-> e.recommended_cities \ e.avoided_cities,
   highly_recommended |-> FactValues(e.facts, "highly_recommended"),
   avoided |-> e.avoided_cities,
   all_final |-> FactValues(e.facts, "final_recommended")]

(***************************************************************************)
(* State.  A process imports the module once (EXPERTA_AVAILABLE is fixed   *)
(* by that import) and then serves requests one at a time.                 *)
(***************************************************************************)
VARIABLES
  EXPERTA_AVAILABLE,  \* whether `from experta import ...` succeeded
  pc,                 \* "ready": a request is pending; "done": it has been served
  request,            \* the pending or last served request
  results,            \* the list the last recommend_trip call returned
  outcome,            \* "none", "returned" or "raised": how the last call ended
  sp,                 \* the (path, distance) the last shortest-path call returned
  history,            \* the served requests with what each returned, oldest first
  coords,             \* the dict the last get_city_coords call returned
  within,             \* the dict the last get_cities_within_distance call returned
  alternatives,       \* the list the last find_all_paths call returned
  kb,                 \* what importing app/kb/data.py left: Unloaded, or the loaded lists
  kb_graph,           \* the graph build_distance_graph built from the loaded connections
  heap,               \* a search in progress: the entries of its priority queue
  best,               \* a search in progress: its dict of tentative distances
  expanded,           \* a search in progress: the entry its last iteration popped
  pushes,             \* a search in progress: every entry pushed so far, in push order
  engine              \* the TravelRecommendationEngine of the last create_engine_with_preferences

\* the variables of the calls into app/kb and of get_city_coords
kbVars == <<coords, within, alternatives, kb, kb_graph>>

\* the variables of a search that is followed iteration by iteration
searchVars == <<heap, best, expanded, pushes>>

vars ==
  <<EXPERTA_AVAILABLE, pc, request, results, outcome, sp, history, kbVars, searchVars, engine>>

(***************************************************************************)
(* app/experta_kb.py recommend_trip                                        *)
(***************************************************************************)
\* a season test without the "all_year" case
season_ok_exact(season, city) == DictGet(BEST_SEASON, city, None) = season

\* season_ok = (season == 'all_year') or (BEST_SEASON.get(city) == season)
season_ok(season, city) == season = "all_year" \/ DictGet(BEST_SEASON, city, None) = season

\* budget_ok = (budget == 'variable') or (city_budget == budget)
budget_ok(budget, city) == budget = "variable" \/ DictGet(BUDGETS, city, "variable") = budget

\* the cities that pass the season and budget filter, in the order of CITIES
candidates(season, budget) ==
  SelectSeq(CITIES, LAMBDA city : season_ok(season, city) /\ budget_ok(budget, city))

\* the facts declared to the engine: one per city
CityFacts ==
  {[city |-> c, budget |-> DictGet(BUDGETS, c, None), best_season |-> DictGet(BEST_SEASON, c, None)] :
     c \in Range(CITIES)}

\* TravelEngine.mark_recommended fires once for every fact with the fields city, budget, best_season
mark_recommended(facts) == {f.city : f \in facts}

\* the cities of the truthy `recommended` facts after engine.run(); empty without experta
recommended_by_experta(available) ==
  IF available THEN {c \in mark_recommended(CityFacts) : c # None} ELSE {}

\* a module-level results list in place of results = [] : the list of the previous call
PreviousResults == results

\* results = [] : every call starts from a new list
NewResults == <<>>

\* graph = _build_graph(); _dijkstra(graph, s, t) for every s and t a request can lead to.
\* _dijkstra reads nothing but its arguments, so each of its values is computed once.
Routes ==
  LET graph == _build_graph
      names == Keys(graph) \cup Range(CITIES) \cup {UnknownCity}
  IN  [s \in names |-> [t \in names |-> _dijkstra(graph, s, t)]]

\* end_city = dest in place of end or dest : the given end is ignored
end_city_ignoring_end(end, dest) == dest

\* end_city = end or dest
end_city(end, dest) == Or(end, dest)

\* score_boost with the two values exchanged
score_boost_exchanged(dest, recommended) == IF dest \in recommended THEN 0 ELSE 1

\* score_boost = 1 if dest in recommended_by_experta else 0
score_boost(dest, recommended) == IF dest \in recommended THEN 1 ELSE 0

RECURSIVE RouteLoop(_, _, _, _, _, _)
\* for dest in candidates: ...
RouteLoop(cands, i, start_city, end, recommended, acc) ==
  IF i > Len(cands)
  THEN [raised |-> FALSE, results |-> acc]
  ELSE LET dest == cands[i]
           r == Routes[start_city][end_city(end, dest)]
       IN  IF r.raised
           THEN [raised |-> TRUE, results |-> acc]
           ELSE IF r.path # <<>>
           THEN RouteLoop(cands, i + 1, start_city, end, recommended,
                          Append(acc, [route |-> r.path, distance |-> r.dist,
                                       recommended_score |-> score_boost(dest, recommended)]))
           ELSE RouteLoop(cands, i + 1, start_city, end, recommended, acc)

\* the sort key negated: the longest route first
SortKeyDescending(r) == r.recommended_score - r.distance

\* key=lambda r: (r['distance'] - r.get('recommended_score', 0))
SortKey(r) == r.distance - r.recommended_score

\* where list.sort puts r among the already sorted entries: after every entry whose key is not greater
InsertSorted(sorted, r) ==
  LET k == Cardinality({i \in DOMAIN sorted : SortKey(sorted[i]) <= SortKey(r)})
  IN  SubSeq(sorted, 1, k) \o <<r>> \o SubSeq(sorted, k + 1, Len(sorted))

RECURSIVE SortFrom(_, _, _)
SortFrom(list, i, sorted) ==
  IF i > Len(list) THEN sorted ELSE SortFrom(list, i + 1, InsertSorted(sorted, list[i]))

\* results.sort(key=...) : ascending by key, stable
sort(list) == SortFrom(list, 1, <<>>)

recommend_trip(available, season, budget, start, end) ==
  LET start_city == Or(start, "colombo")
      loop == RouteLoop(candidates(season, budget), 1, start_city, end,
                        recommended_by_experta(available), NewResults)
  IN  IF loop.raised THEN loop ELSE [raised |-> FALSE, results |-> sort(loop.results)]

(***************************************************************************)
(* app/experta_kb.py get_city_coords                                       *)
(***************************************************************************)
\* the entry of a name that has no coordinates, if it were given one
NoCoords == [lat |-> 0, lon |-> 0]

RECURSIVE CoordsFrom(_, _, _)
\* {c: COORDS[c] for c in cities if c in COORDS}
CoordsFrom(cities, i, d) ==
  IF i > Len(cities)
  THEN d
  ELSE IF HasKey(COORDS, cities[i])
  THEN CoordsFrom(cities, i + 1, DictPut(d, cities[i], DictGet(COORDS, cities[i], NoCoords)))
  ELSE CoordsFrom(cities, i + 1, d)

\* [(c, COORDS.get(c, default)) for c in cities] : an unknown name gets an entry too
get_city_coords_with_default(cities) ==
  [i \in DOMAIN cities |-> <<cities[i], DictGet(COORDS, cities[i], NoCoords)>>]

get_city_coords(cities) == CoordsFrom(cities, 1, EmptyDict)

(***************************************************************************)
(* Requests                                                                *)
(***************************************************************************)
\* season and budget tokens; "monsoon" and "luxury" are not recognized
Seasons == {"winter", "summer", "all_year", "monsoon"}
Budgets == {"budget", "moderate", "high", "variable", "luxury"}

\* city_exists(city): city in CITIES
city_exists(city) == city \in Range(CITIES)

\* what a caller can pass as start or end
TripNames == Range(CITIES) \cup {UnknownCity, None}

TripRequests ==
  [op : {"recommend_trip"}, season : Seasons, budget : Budgets, start : TripNames, end : TripNames,
   impl : {None}, source : {None}, target : {None}]

\* the nodes a shortest-path query can name, per implementation
PathNames(impl) ==
  IF impl = "experta_kb" THEN Keys(_build_graph) \cup {UnknownCity}
  ELSE Keys(build_distance_graph) \cup {UnknownCity}

\* the sources of the queries between two different names
PathSources == {"colombo", "jaffna", UnknownCity}

\* every query from a name to itself, and every query from one of PathSources to any name
PathRequests ==
  UNION {{r \in [op : {"shortest_path"}, season : {None}, budget : {None}, start : {None},
                 end : {None}, impl : {impl}, source : PathNames(impl), target : PathNames(impl)] :
            r.source = r.target \/ r.source \in PathSources} :
           impl \in {"experta_kb", "algorithms"}}

\* the longest list of names a get_city_coords call is given
MaxNames == 2

\* the names such a list can hold: cities, a city of app/kb/data.py only, and no city
CoordNames == {"colombo", "kandy", "ella", "kalutara", UnknownCity}

CoordsRequests ==
  [op : {"get_city_coords"},
   cities : UNION {[1..n -> CoordNames] : n \in 0..MaxNames}]

(***************************************************************************)
(* Small road networks: every choice of a length, or of no road at all,    *)
(* for each of Roads, listed in the order of Roads or the other way round. *)
(***************************************************************************)
Roads ==
  <<
    <<"colombo", "ella">>, <<"colombo", "galle">>, <<"ella", "galle">>,
    <<"ella", "kandy">>, <<"galle", "kandy">>
  >>

\* the longest road
MaxWeight == 2

RECURSIVE RoadList(_, _)
\* the connections of the roads from the i-th on that have a length
RoadList(w, i) ==
  IF i > Len(Roads)
  THEN <<>>
  ELSE (IF w[i] > 0 THEN <<<<Roads[i][1], Roads[i][2], w[i]>>>> ELSE <<>>) \o RoadList(w, i + 1)

\* the same connections listed last to first, each from its other end
Reversed(conns) ==
  [i \in 1..Len(conns) |->
     LET c == conns[Len(conns) + 1 - i] IN <<c[2], c[1], c[3]>>]

ConnectionLists ==
  UNION {{RoadList(w, 1), Reversed(RoadList(w, 1))} : w \in [DOMAIN Roads -> 0..MaxWeight]}

\* the names a query on a small network can give, and the sources it can start from
GraphNames == {"colombo", "ella", "galle", "kandy", UnknownCity}
GraphSources == {"colombo", "kandy", UnknownCity}

\* the largest max_distance and the largest max_paths of a query
MaxDistance == 3
MaxPaths == 3

GraphRequests ==
  [op : {"shortest_path"}, impl : {"experta_kb", "algorithms"}, connections : ConnectionLists,
   source : GraphSources, target : GraphNames, max_distance : {0}, max_paths : {0}]
  \cup
  [op : {"get_cities_within_distance"}, impl : {"algorithms"}, connections : ConnectionLists,
   source : GraphSources, target : {None}, max_distance : -1..MaxDistance, max_paths : {0}]
  \cup
  [op : {"find_all_paths"}, impl : {"algorithms"}, connections : ConnectionLists,
   source : GraphSources, target : GraphNames, max_distance : {0}, max_paths : 0..MaxPaths]

(***************************************************************************)
(* Seed lists of app/kb/data.py: two cities, the first with a latitude and *)
(* the second with a longitude that is in range or not, and up to          *)
(* MaxConnections connections between them and an unknown city.            *)
(***************************************************************************)
SeedCities ==
  {<<[name |-> "colombo", latitude |-> la, longitude |-> 80],
     [name |-> "kandy", latitude |-> 7, longitude |-> lo]>> : la \in {7, 91}, lo \in {81, -181}}

MaxConnections == 2

SeedConnection ==
  {c \in {"colombo", "kandy", UnknownCity} \X {"colombo", "kandy", UnknownCity} \X (-1..2) :
     c[1] # c[2]}

SeedConnections == UNION {[1..n -> SeedConnection] : n \in 0..MaxConnections}

LoadRequests == [op : {"load"}, cities : SeedCities, connections : SeedConnections]

(***************************************************************************)
(* Engine runs: a knowledge base of one city with any attributes, or of    *)
(* that city and a second one, with any preferences.                       *)
(***************************************************************************)
CityTypes == {"beach", "urban"}
Regions == {"south", "east", "central"}
BestSeasons == {"winter", "summer", "all_year"}
BudgetLevels == {"budget", "high", "variable"}

EngineCities ==
  [name : {"colombo"}, city_type : CityTypes, region : Regions, best_season : BestSeasons,
   budget_level : BudgetLevels]

\* a second city: winter on the east coast, or all year in the west
SecondCities ==
  {[name |-> "trincomalee", city_type |-> "beach", region |-> "east",
    best_season |-> "winter", budget_level |-> "high"],
   [name |-> "negombo", city_type |-> "beach", region |-> "west",
    best_season |-> "all_year", budget_level |-> "budget"]}

\* the first city of the knowledge bases that have a second city
FirstCities ==
  {c \in EngineCities :
     /\ c.city_type = "urban" /\ c.region = "central"
     /\ c.best_season = "all_year" /\ c.budget_level = "variable"}

\* no city, one city, or two cities
EngineKBs ==
  {<<>>} \cup {<<c>> : c \in EngineCities} \cup {<<c, d>> : c \in FirstCities, d \in SecondCities}

\* the interests a traveller can name ("shopping" is not in interest_map), and how many
Interests == {"beach", "shopping"}
MaxInterests == 1

EngineRequests ==
  [op : {"create_engine_with_preferences"}, season : Seasons,
   budget : {"budget", "variable", "luxury"},
   interests : UNION {[1..n -> Interests] : n \in 0..MaxInterests}, cities : EngineKBs]

\* the requests of a process that serves several requests in a row
SeqRequests ==
  [op : {"recommend_trip"}, season : {"all_year", "winter"}, budget : {"budget"},
   start : {"colombo", UnknownCity}, end : {None, "ella"},
   impl : {None}, source : {None}, target : {None}]

\* the number of requests a process serves
MaxCalls == 3

NoPath == [path |-> <<>>, dist |-> 0]

\* no entry has been popped yet
NoEntry == [dist |-> 0, node |-> None, path |-> <<>>]

\* a graph that holds each connection in one direction only: from the city whose name
\* comes first to the other
GraphOneWay(req) ==
  LET g == IF "connections" \in DOMAIN req
           THEN AddConnections(req.connections, 1, EmptyDict)
           ELSE IF req.impl = "experta_kb" THEN _build_graph ELSE build_distance_graph
  IN  [i \in DOMAIN g |-> <<g[i][1], SelectSeq(g[i][2], LAMBDA e : StrLess(g[i][1], e[1]))>>]

\* the graph a call searches: the graph built from the connection list of the request,
\* or without such a list the graph of the implementation's own knowledge base
GraphOf(req) ==
  IF "connections" \in DOMAIN req
  THEN AddConnections(req.connections, 1, EmptyDict)
  ELSE IF req.impl = "experta_kb" THEN _build_graph ELSE build_distance_graph

(***************************************************************************)
(* Operations                                                              *)
(***************************************************************************)
\* results = recommend_trip(season, budget, start, end)
RecommendTrip ==
  /\ pc = "ready"
  /\ request.op = "recommend_trip"
  /\ LET out == recommend_trip(EXPERTA_AVAILABLE, request.season, request.budget,
                               request.start, request.end)
         returned == IF out.raised THEN results ELSE out.results
         how == IF out.raised THEN "raised" ELSE "returned"
     IN  /\ results' = returned
         /\ outcome' = how
         /\ history' = Append(history, [request |-> request, outcome |-> how, results |-> returned])
  /\ pc' = "done"
  /\ UNCHANGED <<EXPERTA_AVAILABLE, engine, searchVars, request, sp, kbVars>>

\* path, dist = _dijkstra(graph, source, target), or dijkstra_shortest_path(graph, source, target)
ShortestPath ==
  /\ pc = "ready"
  /\ request.op = "shortest_path"
  /\ LET r == IF request.impl = "experta_kb"
              THEN _dijkstra(GraphOf(request), request.source, request.target)
              ELSE dijkstra_shortest_path(GraphOf(request), request.source, request.target)
     IN  /\ sp' = [path |-> r.path, dist |-> r.dist]
         /\ outcome' = IF r.raised THEN "raised" ELSE "returned"
  /\ pc' = "done"
  /\ UNCHANGED <<EXPERTA_AVAILABLE, engine, searchVars, request, results, history, kbVars>>

\* coords = get_city_coords(cities), and app.py: coords = get_city_coords(recs[0]['route'])
GetCityCoords ==
  \/ /\ pc = "ready"
     /\ request.op = "get_city_coords"
     /\ coords' = get_city_coords(request.cities)
     /\ outcome' = "returned"
     /\ pc' = "done"
     /\ UNCHANGED <<EXPERTA_AVAILABLE, engine, searchVars, request, results, sp, history, within, alternatives, kb, kb_graph>>
  \/ /\ pc = "done"
     /\ request.op = "recommend_trip"
     /\ outcome = "returned"
     /\ results # <<>>
     /\ coords' = get_city_coords(results[1].route)
     /\ pc' = "shown"
     /\ UNCHANGED <<EXPERTA_AVAILABLE, engine, searchVars, request, results, outcome, sp, history, within,
                    alternatives, kb, kb_graph>>

\* within = get_cities_within_distance(graph, source, max_distance)
GetCitiesWithinDistance ==
  /\ pc = "ready"
  /\ request.op = "get_cities_within_distance"
  /\ within' = get_cities_within_distance(GraphOf(request), request.source, request.max_distance)
  /\ outcome' = "returned"
  /\ pc' = "done"
  /\ UNCHANGED <<EXPERTA_AVAILABLE, engine, searchVars, request, results, sp, history, coords, alternatives, kb, kb_graph>>

\* alternatives = find_all_paths(graph, source, target, max_paths)
FindAllPaths ==
  /\ pc = "ready"
  /\ request.op = "find_all_paths"
  /\ alternatives' = find_all_paths(GraphOf(request), request.source, request.target,
                                    request.max_paths)
  /\ outcome' = "returned"
  /\ pc' = "done"
  /\ UNCHANGED <<EXPERTA_AVAILABLE, engine, searchVars, request, results, sp, history, coords, within, kb, kb_graph>>

\* the entries that one iteration pushed, in the order of the neighbours they are for
PushedFor(items, new) ==
  LET names == SelectSeq([i \in DOMAIN items |-> items[i][1]],
                         LAMBDA n : \E x \in new : x.node = n)
  IN  [j \in DOMAIN names |-> CHOOSE x \in new : x.node = names[j]]

\* the start of dijkstra_shortest_path or _dijkstra, up to the first test of `while queue`
BeginSearch ==
  /\ pc = "ready"
  /\ request.op = "shortest_path"
  /\ LET first == [dist |-> 0, node |-> request.source, path |-> <<request.source>>]
         G == GraphOf(request)
     IN  IF request.source = request.target
         THEN /\ sp' = [path |-> <<request.source>>, dist |-> 0]
              /\ pc' = "done"
              /\ outcome' = "returned"
              /\ UNCHANGED searchVars
         ELSE IF /\ request.impl = "algorithms"
                 /\ ~HasKey(G, request.source) \/ ~HasKey(G, request.target)
         THEN /\ sp' = NoPath
              /\ pc' = "done"
              /\ outcome' = "returned"
              /\ UNCHANGED searchVars
         ELSE /\ heap' = {first}
              /\ best' = <<<<request.source, 0>>>>
              /\ pushes' = <<first>>
              /\ pc' = "searching"
              /\ UNCHANGED <<sp, outcome, expanded>>
  /\ UNCHANGED <<EXPERTA_AVAILABLE, engine, request, results, history, kbVars>>

\* one iteration of `while queue`, or the return after the loop
SearchStep ==
  /\ pc = "searching"
  /\ IF heap = {}
     THEN /\ sp' = NoPath
          /\ pc' = "done"
          /\ outcome' = "returned"
          /\ UNCHANGED searchVars
     ELSE LET e == heappop(heap)
              rest == heap \ {e}
              items == DictGet(GraphOf(request), e.node, EmptyDict)
              st == IF request.impl = "experta_kb"
                    THEN LET r == RelaxNeighbours(items, 1, e.dist, e.path,
                                                  [seen |-> best, queue |-> rest])
                         IN  [queue |-> r.queue, distances |-> r.seen]
                    ELSE ExploreNeighbours(items, 1, e.dist, e.path,
                                           [distances |-> best, queue |-> rest])
          IN  /\ expanded' = e
              /\ IF e.node = request.target
                 THEN /\ sp' = [path |-> e.path, dist |-> e.dist]
                      /\ pc' = "done"
                      /\ outcome' = "returned"
                      /\ heap' = rest
                      /\ UNCHANGED <<best, pushes>>
                 ELSE IF /\ request.impl = "algorithms"
                         /\ HasKey(best, e.node)
                         /\ e.dist > DictGet(best, e.node, 0)
                 THEN /\ heap' = rest
                      /\ UNCHANGED <<sp, pc, outcome, best, pushes>>
                 ELSE /\ heap' = st.queue
                      /\ best' = st.distances
                      /\ pushes' = pushes \o PushedFor(items, st.queue \ rest)
                      /\ UNCHANGED <<sp, pc, outcome>>
  /\ UNCHANGED <<EXPERTA_AVAILABLE, engine, request, results, history, kbVars>>

\* create_engine_with_preferences up to engine.run(); None without experta
CreateEngine ==
  /\ pc = "ready"
  /\ request.op = "create_engine_with_preferences"
  /\ IF EXPERTA_AVAILABLE
     THEN /\ engine' = NewEngine(request.season, request.budget, request.interests,
                                  request.cities)
          /\ pc' = "running"
          /\ UNCHANGED outcome
     ELSE /\ pc' = "done"
          /\ outcome' = "returned"
          /\ UNCHANGED engine
  /\ UNCHANGED <<EXPERTA_AVAILABLE, request, results, sp, history, kbVars, searchVars>>

\* engine.run(): one activation of the agenda fires
Fire ==
  /\ pc = "running"
  /\ \E a \in Agenda(engine) : engine' = FireRule(engine, a, request.cities)
  /\ UNCHANGED <<EXPERTA_AVAILABLE, pc, request, results, outcome, sp, history, kbVars,
                 searchVars>>

\* engine.run() returns: the agenda is empty
RunReturns ==
  /\ pc = "running"
  /\ Agenda(engine) = {}
  /\ pc' = "done"
  /\ outcome' = "returned"
  /\ UNCHANGED <<EXPERTA_AVAILABLE, engine, request, results, sp, history, kbVars, searchVars>>

\* import app.kb.data
LoadKB ==
  /\ pc = "ready"
  /\ request.op = "load"
  /\ kb' = ImportData(request.cities, request.connections)
  /\ outcome' = IF kb'.loaded THEN "returned" ELSE "raised"
  /\ pc' = IF kb'.loaded THEN "loaded" ELSE "done"
  /\ UNCHANGED <<EXPERTA_AVAILABLE, engine, searchVars, request, results, sp, history, coords, within,
                 alternatives, kb_graph>>

\* graph = build_distance_graph(), over the connections of the loaded module
BuildGraph ==
  /\ pc = "loaded"
  /\ kb_graph' = AddConnections(kb.connections, 1, EmptyDict)
  /\ outcome' = "returned"
  /\ pc' = "done"
  /\ UNCHANGED <<EXPERTA_AVAILABLE, engine, searchVars, request, results, sp, history, coords, within,
                 alternatives, kb>>

\* the next request of the same process arrives
Submit(r) ==
  /\ pc = "done"
  /\ Len(history) < MaxCalls
  /\ request' = r
  /\ pc' = "ready"
  /\ UNCHANGED <<EXPERTA_AVAILABLE, engine, searchVars, results, outcome, sp, history, kbVars>>

InitWith(requests) ==
  /\ EXPERTA_AVAILABLE \in BOOLEAN
  /\ request \in requests
  /\ pc = "ready"
  /\ results = <<>>
  /\ outcome = "none"
  /\ sp = NoPath
  /\ history = <<>>
  /\ coords = EmptyDict
  /\ within = EmptyDict
  /\ alternatives = <<>>
  /\ kb = Unloaded
  /\ kb_graph = EmptyDict
  /\ heap = {}
  /\ best = EmptyDict
  /\ expanded = NoEntry
  /\ pushes = <<>>
  /\ engine = NoEngine

\* one request, drawn from every combination of inputs
Init == InitWith(TripRequests \cup PathRequests \cup CoordsRequests)

Next == RecommendTrip \/ ShortestPath \/ GetCityCoords

Spec == Init /\ [][Next]_vars

\* a process that serves up to MaxCalls requests in a row
InitSeq == InitWith(SeqRequests)

NextSeq == RecommendTrip \/ \E r \in SeqRequests : Submit(r)

SpecSeq == InitSeq /\ [][NextSeq]_vars

\* one query on a small road network; app/kb/algorithms.py does not import experta
InitGraph == InitWith(GraphRequests) /\ ~EXPERTA_AVAILABLE

NextGraph == ShortestPath \/ GetCitiesWithinDistance \/ FindAllPaths

SpecGraph == InitGraph /\ [][NextGraph]_vars

\* one search on a small road network, followed iteration by iteration
InitSearch == InitWith({r \in GraphRequests : r.op = "shortest_path"}) /\ ~EXPERTA_AVAILABLE

NextSearch == BeginSearch \/ SearchStep

SpecSearch == InitSearch /\ [][NextSearch]_vars

\* one run of the rule engine, the activations firing in any order
InitEngine == InitWith(EngineRequests)

NextEngine == CreateEngine \/ Fire \/ RunReturns

SpecEngine == InitEngine /\ [][NextEngine]_vars

\* engine.run() keeps firing until the agenda is empty, and then returns
SpecEngineRun == SpecEngine /\ WF_vars(NextEngine)

\* one import of app/kb/data.py with seed lists that may be malformed, then the graph
InitLoad == InitWith(LoadRequests) /\ ~EXPERTA_AVAILABLE

NextLoad == LoadKB \/ BuildGraph

SpecLoad == InitLoad /\ [][NextLoad]_vars

(***************************************************************************)
(* Properties of recommend_trip                                            *)
(***************************************************************************)
\* a recommend_trip call has been served; results and outcome are what it returned
Served == pc = "done" /\ request.op = "recommend_trip"

\* the start the call routes from: start, or 'colombo' when start is not given
StartOf(req) == Or(req.start, "colombo")

\* the name is given and is not a city of the KB
NamesUnknownCity(name) == name # None /\ ~city_exists(name)

\* the neighbours of a city in the connection list
Adjacent(n) ==
  {c[2] : c \in {d \in Range(DISTANCES) : d[1] = n}} \cup
  {c[1] : c \in {d \in Range(DISTANCES) : d[2] = n}}

RECURSIVE ReachFrom(_)
\* the cities some sequence of connections joins to a city of S, and S itself
ReachFrom(S) ==
  LET T == S \cup UNION {Adjacent(n) : n \in S}
  IN  IF T = S THEN S ELSE ReachFrom(T)

\* the cities of the connection graph
GraphCities == UNION {{d[1], d[2]} : d \in Range(DISTANCES)}

\* for every city of the graph, the cities reachable from it
Reach == [s \in GraphCities |-> ReachFrom({s})]

\* t is reachable from s in the connection graph
Reachable(s, t) == s \in GraphCities /\ t \in Reach[s]

\* C1: for every season, budget and start city, recommend_trip with end == start returns a
\* non-empty result whose first entry has route == [start] and distance == 0.
C1_SameStartEndYieldsResult ==
  (Served /\ city_exists(request.start) /\ request.end = request.start)
    => /\ results # <<>>
       /\ results[1].route = <<request.start>>
       /\ results[1].distance = 0

\* C2: when end is given and is a city of the KB, the result holds exactly one entry if end is
\* reachable from start, and never more than one entry.
C2_ExplicitEndSingleResult ==
  (Served /\ request.end # None /\ city_exists(request.end))
    => /\ Len(results) <= 1
       /\ Reachable(StartOf(request), request.end) => Len(results) = 1

\* C3: for every start and every given end, recommend_trip("all_year", "variable", start, end)
\* returns a non-empty result if and only if end is reachable from start in the connection graph.
C3_NonEmptyIffReachable ==
  (Served /\ request.season = "all_year" /\ request.budget = "variable" /\ request.end # None)
    => (results # <<>> <=> Reachable(StartOf(request), request.end))

\* C4: the returned sequence is ordered by score descending, with distance ascending as
\* tie-break: of two adjacent results either the first has the greater score, or the scores
\* are equal and the first has the smaller or equal distance.
C4_OrderedByScoreThenDistance ==
  Served =>
    \A i \in 1..(Len(results) - 1) :
      \/ results[i].recommended_score > results[i + 1].recommended_score
      \/ /\ results[i].recommended_score = results[i + 1].recommended_score
         /\ results[i].distance <= results[i + 1].distance

\* a call without end from colombo that returned all twenty cities, the nearest ones first,
\* in an order that is not the order of CITIES
C4_Witness ==
  /\ Served
  /\ request.start = "colombo"
  /\ Len(results) = Len(CITIES)
  /\ results[2].route = <<"colombo", "negombo">>
  /\ results[2].distance < results[3].distance

\* the destination of a result: the last city of its route
DestinationOf(r) == r.route[Len(r.route)]

\* the classification the claim C5 scores by: recommend_trip classifies by the season/budget
\* filter alone, it derives no highly recommended and no avoided city
ClaimedRecommended(req) == Range(candidates(req.season, req.budget))
ClaimedHighlyRecommended(req) == {}
ClaimedAvoided(req) == {}

\* the score the claim C5 states for destination D
ClaimedScore(D, req) ==
  IF D = StartOf(req)
  THEN IF D \in ClaimedHighlyRecommended(req) THEN 2 ELSE 1
  ELSE IF D \in ClaimedHighlyRecommended(req) THEN 3
  ELSE IF D \in ClaimedRecommended(req) THEN 2
  ELSE IF D \in ClaimedAvoided(req) THEN 0 - 1
  ELSE 1

\* C5 as stated: every result for a destination D different from start carries the score 3 if D
\* is highly recommended, 2 if recommended, -1 if avoided and 1 otherwise; for D == start the
\* score is 2 if D is highly recommended and 1 otherwise.
C5_ScoreByClassification ==
  Served => \A i \in DOMAIN results :
              results[i].recommended_score = ClaimedScore(DestinationOf(results[i]), request)

\* C5 as amended: every result carries the score 1 when the rule engine is available (its one
\* rule marks every declared city as recommended) and the score 0 when it is not, whatever the
\* destination; the scores 3, 2 and -1 do not occur.
C5_ScoreIsEngineBoost ==
  Served => \A i \in DOMAIN results :
              results[i].recommended_score = (IF EXPERTA_AVAILABLE THEN 1 ELSE 0)

\* a result for a destination other than start, scored by the available engine
C5_Witness ==
  /\ Served
  /\ EXPERTA_AVAILABLE
  /\ results # <<>>
  /\ DestinationOf(results[1]) # StartOf(request)
  /\ results[1].recommended_score = 1

\* C6: a route request that names an unknown city (a start or an end that is not a city of the
\* KB) yields an empty result, for every season and budget.
C6_UnknownCityYieldsEmpty ==
  (Served /\ (NamesUnknownCity(request.start) \/ NamesUnknownCity(request.end)))
    => results = <<>>

\* C7: recommend_trip never ends in a raised failure: for every season and budget (recognized
\* or not), start and end, the call returns a possibly empty sequence.
C7_NeverRaises == Served => outcome = "returned"

\* a call from an unknown start, whose lookup in the graph finds no node, returned empty
C7_Witness ==
  /\ Served
  /\ request.season = "all_year"
  /\ request.budget = "variable"
  /\ request.start = UnknownCity
  /\ request.end = None
  /\ outcome = "returned"
  /\ results = <<>>

\* C8: every result returned for a given end different from start has a non-empty route whose
\* first city is start and whose last city is end, and a distance > 0 (start is the city the
\* call routes from: 'colombo' when no start is given).
C8_RouteFromStartToEnd ==
  (Served /\ request.end # None /\ request.end # StartOf(request))
    => \A i \in DOMAIN results :
         /\ results[i].route # <<>>
         /\ results[i].route[1] = StartOf(request)
         /\ DestinationOf(results[i]) = request.end
         /\ results[i].distance > 0

\* a call with an end other than start returned a route through at least one other city
C8_Witness ==
  /\ Served
  /\ request.end # None
  /\ request.end # StartOf(request)
  /\ results # <<>>
  /\ Len(results[1].route) >= 3

CoordsServed == (pc = "done" /\ request.op = "get_city_coords") \/ pc = "shown"

\* the list of names that call was given
Asked == IF pc = "shown" THEN results[1].route ELSE request.cities

\* C13: get_city_coords silently omits unknown names: for every list of names the keys of
\* the result are exactly the listed names that are cities of the KB, so every city of a
\* route returned by recommend_trip has an entry.
C13_CoordsOfKnownNames ==
  /\ CoordsServed => Keys(coords) = {c \in Range(Asked) : city_exists(c)}
  /\ (pc = "done" /\ request.op = "recommend_trip") =>
       \A i \in DOMAIN results : \A c \in Range(results[i].route) :
         city_exists(c) => HasKey(get_city_coords(results[i].route), c)

\* get_city_coords(['colombo', 'atlantis']) returned the entry of colombo alone
C13_Witness ==
  /\ pc = "done"
  /\ request.op = "get_city_coords"
  /\ request.cities = <<"colombo", UnknownCity>>
  /\ coords = <<<<"colombo", [lat |-> 69271, lon |-> 798612]>>>>

(***************************************************************************)
(* Properties of the shortest-path search                                  *)
(***************************************************************************)
\* a shortest-path call has been served; sp is what it returned
Searched == pc = "done" /\ request.op = "shortest_path"

\* C10: for every city C, shortest_path(graph, C, C) returns exactly ([C], 0).
C10_PathToSelf ==
  (Searched /\ request.source = request.target /\ HasKey(GraphOf(request), request.source))
    => sp = [path |-> <<request.source>>, dist |-> 0]

\* dijkstra_shortest_path was asked for the route from kandy to kandy
C10_Witness ==
  /\ Searched
  /\ request.impl = "algorithms"
  /\ request.source = "kandy"
  /\ request.target = "kandy"
  /\ sp.path = <<"kandy">>

\* the search of the implementation of the request, from s to t
Search(req, s, t) ==
  IF req.impl = "experta_kb"
  THEN _dijkstra(GraphOf(req), s, t)
  ELSE dijkstra_shortest_path(GraphOf(req), s, t)

\* C11: for every pair (A, B) of cities with B reachable from A in the graph built from
\* the connection list, the distance of shortest_path(graph, A, B) equals the distance
\* of shortest_path(graph, B, A).
C11_SymmetricDistance ==
  (Searched /\ sp.path # <<>>)
    => Search(request, request.target, request.source).dist = sp.dist

\* dijkstra_shortest_path found the route from jaffna to yala over the road network
C11_Witness ==
  /\ Searched
  /\ request.impl = "algorithms"
  /\ request.source = "jaffna"
  /\ request.target = "yala"
  /\ Len(sp.path) > 2

\* C12: if source or target is absent from the graph, shortest_path returns ([], 0)
\* instead of failing.
C12_AbsentEndYieldsNoPath ==
  (Searched /\ (~HasKey(GraphOf(request), request.source)
                \/ ~HasKey(GraphOf(request), request.target)))
    => (outcome = "returned" /\ sp = NoPath)

(***************************************************************************)
(* Paths of a graph                                                        *)
(***************************************************************************)
\* the neighbours of city a
Neighbours(G, a) == Keys(DictGet(G, a, EmptyDict))

\* the length of the edge between a and b
Weight(G, a, b) == DictGet(DictGet(G, a, EmptyDict), b, 0)

RECURSIVE PathWeight(_, _)
\* the sum of the edge lengths along path p
PathWeight(G, p) ==
  IF Len(p) < 2 THEN 0 ELSE Weight(G, p[1], p[2]) + PathWeight(G, Tail(p))

RECURSIVE ExtendPaths(_, _, _)
\* the simple paths that extend one of `paths` by at most n edges
ExtendPaths(G, paths, n) ==
  IF n = 0
  THEN paths
  ELSE ExtendPaths(G,
         paths \cup UNION {{Append(p, b) : b \in Neighbours(G, p[Len(p)]) \ Range(p)} : p \in paths},
         n - 1)

\* the simple paths of G from s to t: no city twice, every step an edge
SimplePaths(G, s, t) ==
  {p \in ExtendPaths(G, {<<s>>}, Cardinality(Keys(G))) : p[Len(p)] = t}

\* C16: for every graph with positive edge weights and every source # target both in the
\* graph, shortest_path returns a non-empty path iff target is reachable from source; then
\* the path starts at source, ends at target, every consecutive pair is an edge, the
\* distance is the sum of the edge weights, and no other path has a smaller total weight.
C16_ShortestPathIsShortest ==
  (/\ Searched
   /\ request.source # request.target
   /\ HasKey(GraphOf(request), request.source)
   /\ HasKey(GraphOf(request), request.target))
    => LET G == GraphOf(request)
           all == SimplePaths(G, request.source, request.target)
       IN  /\ outcome = "returned"
           /\ sp.path # <<>> <=> all # {}
           /\ sp.path # <<>> =>
                /\ sp.path[1] = request.source
                /\ sp.path[Len(sp.path)] = request.target
                /\ \A i \in 1..(Len(sp.path) - 1) : sp.path[i + 1] \in Neighbours(G, sp.path[i])
                /\ sp.dist = PathWeight(G, sp.path)
                /\ \A q \in all : PathWeight(G, q) >= sp.dist

\* the search took the two short roads by way of ella instead of a longer way by galle
C16_Witness ==
  /\ Searched
  /\ request.source = "colombo"
  /\ request.target = "kandy"
  /\ sp.path = <<"colombo", "ella", "kandy">>
  /\ sp.dist = 2
  /\ <<"colombo", "galle", "kandy">> \in SimplePaths(GraphOf(request), "colombo", "kandy")
  /\ PathWeight(GraphOf(request), <<"colombo", "galle", "kandy">>) > 2

(***************************************************************************)
(* Properties of get_cities_within_distance                                *)
(***************************************************************************)
\* a get_cities_within_distance call has been served; within is what it returned
WithinServed == pc = "done" /\ request.op = "get_cities_within_distance"

\* city x can be reached from city s
Connected(G, s, x) == SimplePaths(G, s, x) # {}

\* the least total length of a path from s to x, for x that can be reached from s
ShortestDistance(G, s, x) ==
  LET lengths == {PathWeight(G, p) : p \in SimplePaths(G, s, x)}
  IN  CHOOSE d \in lengths : \A o \in lengths : d <= o

\* x is in the mapping exactly if it is no farther than max_distance, and then the mapping
\* gives its shortest distance
WithinIsExact(G, s, x) ==
  /\ HasKey(within, x) <=> (Connected(G, s, x) /\ ShortestDistance(G, s, x) <= request.max_distance)
  /\ HasKey(within, x) => DictGet(within, x, 0) = ShortestDistance(G, s, x)

\* C18: for every graph, source and max_distance, reachable_within returns a mapping that
\* contains a city X iff the shortest distance from source to X is <= max_distance, maps X
\* to that distance, and always contains source itself at distance 0.
C18_WithinIffNear ==
  WithinServed =>
    LET G == GraphOf(request)
    IN  /\ \A x \in Keys(G) \cup GraphNames : WithinIsExact(G, request.source, x)
        /\ HasKey(within, request.source)
        /\ DictGet(within, request.source, 0) = 0

\* C18, amended: for a source of the graph the mapping holds source at distance 0 and any
\* other city X iff the shortest distance from source to X is <= max_distance, mapped to
\* that distance; for a source that is not in the graph the mapping is empty.
C18_WithinIffNearFromKnownSource ==
  WithinServed =>
    LET G == GraphOf(request)
    IN  IF HasKey(G, request.source)
        THEN /\ \A x \in (Keys(G) \cup GraphNames) \ {request.source} :
                  WithinIsExact(G, request.source, x)
             /\ HasKey(within, request.source)
             /\ DictGet(within, request.source, 0) = 0
        ELSE within = EmptyDict

\* from colombo within 2: ella at 1 and galle at exactly 2 by way of ella, kandy too far
C18_Witness ==
  /\ WithinServed
  /\ request.source = "colombo"
  /\ request.max_distance = 2
  /\ Keys(within) = {"colombo", "ella", "galle"}
  /\ DictGet(within, "galle", 0) = 2
  /\ Weight(GraphOf(request), "colombo", "galle") = 0
  /\ Connected(GraphOf(request), "colombo", "kandy")

(***************************************************************************)
(* Properties of find_all_paths                                            *)
(***************************************************************************)
\* a find_all_paths call has been served; alternatives is what it returned
PathsServed == pc = "done" /\ request.op = "find_all_paths"

\* C19: k_shortest_alternatives returns at most max_paths entries; each entry is a simple
\* path from source to target over edges of the graph, paired with the sum of its edge
\* weights; the entries are in ascending order of distance; and when the graph has no more
\* than max_paths simple paths from source to target, all of them are returned.
C19_AlternativePaths ==
  PathsServed =>
    LET G == GraphOf(request)
        all == SimplePaths(G, request.source, request.target)
    IN  /\ Len(alternatives) <= request.max_paths
        /\ \A i \in DOMAIN alternatives :
             /\ alternatives[i][1] \in all
             /\ alternatives[i][2] = PathWeight(G, alternatives[i][1])
        /\ \A i, j \in DOMAIN alternatives : i < j => alternatives[i][2] <= alternatives[j][2]
        /\ Cardinality(all) <= request.max_paths =>
             /\ {alternatives[i][1] : i \in DOMAIN alternatives} = all
             /\ Len(alternatives) = Cardinality(all)

\* three paths were found, the shortest of them not first, and returned shortest first
C19_Witness ==
  /\ PathsServed
  /\ Len(alternatives) = 3
  /\ alternatives[1][2] < alternatives[3][2]
  /\ alternatives # find_all_paths_unsorted(GraphOf(request), request.source, request.target,
                                            request.max_paths)

(***************************************************************************)
(* Properties of loading the knowledge base                                *)
(***************************************************************************)
\* the import has been tried
LoadTried == request.op = "load" /\ pc # "ready"

\* the names of the seed cities
SeedNames == {request.cities[i].name : i \in DOMAIN request.cities}

\* connection c names a city that is no City of the seed
Dangling(c) == c[1] \notin SeedNames \/ c[2] \notin SeedNames

\* C14: loading the KB fails fatally, with no partially loaded state observable, whenever
\* any Connection references a city name that is not a City of the KB or has a
\* distance <= 0.
C14_BadConnectionFailsLoad ==
  (LoadTried /\ \E i \in DOMAIN request.connections :
                  Dangling(request.connections[i]) \/ request.connections[i][3] <= 0)
    => (outcome = "raised" /\ kb = Unloaded /\ kb_graph = EmptyDict)

\* two of the seed connections join the same unordered pair of cities
HasDuplicatePair(connections) ==
  \E i, j \in DOMAIN connections :
    /\ i < j
    /\ {connections[i][1], connections[i][2]} = {connections[j][1], connections[j][2]}

\* C15: a connection list containing two connections between the same unordered pair of
\* cities is rejected as a load-time validation error when the graph is built, rather
\* than the later connection silently overwriting the earlier one.
C15_DuplicatePairRejected ==
  (LoadTried /\ pc = "done" /\ HasDuplicatePair(request.connections))
    => (outcome = "raised" /\ kb_graph = EmptyDict)

(***************************************************************************)
(* Properties of the order in which a search expands its queue             *)
(***************************************************************************)
\* an iteration of a search has popped the entry `expanded`
Expanding == request.op = "shortest_path" /\ expanded # NoEntry

\* when entry e was pushed: its position in pushes
PushedAt(e) == CHOOSE i \in DOMAIN pushes : pushes[i] = e

\* the entries that were left in the queue although they had the distance of `expanded`.
\* (Every entry pushed by the iteration itself is farther: the roads have a length >= 1.)
TiedWithExpanded == {o \in heap : o.dist = expanded.dist}

\* the same request on the same roads listed the other way round
OtherListing == [request EXCEPT !.connections = Reversed(request.connections)]

\* C17: in shortest_path, among priority-queue entries with equal tentative distance the
\* entry that was enqueued first is expanded first (FIFO among equal keys), so when several
\* shortest paths tie the returned path is determined by enqueue order and not by city
\* names.
C17_FifoAmongTies ==
  Expanding => \A o \in TiedWithExpanded : PushedAt(expanded) < PushedAt(o)

\* C17, amended: among priority-queue entries with equal tentative distance the entry of
\* the city whose name is least in string order is expanded first, so when several
\* shortest paths tie the returned path is determined by the city names and not by
\* enqueue order: listing the connections the other way round returns the same path.
C17_LeastNameAmongTies ==
  /\ Expanding => \A o \in TiedWithExpanded : StrLess(expanded.node, o.node)
  /\ Searched =>
       sp = LET r == Search(OtherListing, request.source, request.target)
            IN  [path |-> r.path, dist |-> r.dist]

\* two routes of length 2 from colombo to kandy; galle was enqueued before ella, ella was
\* expanded before galle, and the route by way of ella was returned
C17_Witness ==
  /\ Searched
  /\ request.source = "colombo"
  /\ request.target = "kandy"
  /\ sp = [path |-> <<"colombo", "ella", "kandy">>, dist |-> 2]
  /\ PathWeight(GraphOf(request), <<"colombo", "galle", "kandy">>) = 2
  /\ \E i, j \in DOMAIN pushes :
       /\ i < j
       /\ pushes[i].node = "galle" /\ pushes[i].dist = 1
       /\ pushes[j].node = "ella" /\ pushes[j].dist = 1

(***************************************************************************)
(* Properties of an engine run                                             *)
(***************************************************************************)
\* create_engine_with_preferences has returned an engine that has run
RunEnded == request.op = "create_engine_with_preferences" /\ pc = "done" /\ EXPERTA_AVAILABLE

\* no rule can derive a new fact: the body of every matching activation declares
\* nothing that is not in the fact list
Saturated ==
  \A a \in Matches(engine.facts) : Body(a, engine, request.cities).declare \subseteq engine.facts

\* C20: a rule-engine run over the seed facts of any finite KB plus any preference facts
\* always terminates at a fixpoint (a state where no rule can derive a new fact), and
\* along the run Working Memory only grows: a fact present in one state is present in
\* every later state.
C20_RunTerminatesAtFixpoint ==
  /\ <>(pc = "done")
  /\ [](RunEnded => Saturated)
  /\ [][engine.facts \subseteq engine'.facts]_vars

\* a run has ended with derived facts of three rules in the fact list
C20_Witness ==
  /\ RunEnded
  /\ \E f \in engine.facts : "final_recommended" \in DOMAIN f
  /\ \E f \in engine.facts : "interest_match" \in DOMAIN f
  /\ Cardinality(engine.fired) > 4

\* the cities of the knowledge base of the run
KBCities == Range(request.cities)

\* the derived facts about a city in Working Memory
Recommended(city) == city \in {f.recommended : f \in FactsWith(engine.facts, "recommended")}

Avoided(city) == city \in {f.avoided : f \in FactsWith(engine.facts, "avoided")}

BudgetAppropriate(city) ==
  city \in {f.budget_appropriate : f \in FactsWith(engine.facts, "budget_appropriate")}

BudgetMismatch(city) ==
  city \in {f.budget_mismatch : f \in FactsWith(engine.facts, "budget_mismatch")}

FinalRecommended(city) ==
  city \in {f.final_recommended : f \in FactsWith(engine.facts, "final_recommended")}

C23_BudgetAppropriateIffMatch ==
  RunEnded =>
    \A c \in KBCities :
      BudgetAppropriate(c.name) <=>
        (request.budget = c.budget_level \/ request.budget = "variable")

\* C23, amended: after an engine run BudgetAppropriate{C} is present iff the budget
\* preference B equals C's budget_level, or B is "variable", or C's budget_level is
\* "variable".
C23_BudgetAppropriateIffMatchOrVariableCity ==
  RunEnded =>
    \A c \in KBCities :
      BudgetAppropriate(c.name) <=>
        \/ request.budget = c.budget_level
        \/ request.budget = "variable"
        \/ c.budget_level = "variable"

\* a run for an unrecognized budget has ended with a city of variable budget level
\* appropriate and a city of another level not
C23_Witness ==
  /\ RunEnded
  /\ request.budget = "luxury"
  /\ \E c, d \in KBCities :
       /\ c.budget_level = "variable" /\ BudgetAppropriate(c.name)
       /\ d.budget_level = "high" /\ ~BudgetAppropriate(d.name)

\* C24: BudgetMismatch{C} is asserted only for a city of budget_level "high" under budget
\* preference "budget" that is not Recommended: in the final Working Memory of any run,
\* whatever order the rules fire in, no city is both Recommended and BudgetMismatch.
C24_NoRecommendedBudgetMismatch ==
  RunEnded =>
    \A c \in KBCities :
      BudgetMismatch(c.name) =>
        /\ c.budget_level = "high"
        /\ request.budget = "budget"
        /\ ~Recommended(c.name)

InterestTypes ==
  {DictGet(interest_map, request.interests[i], None) : i \in DOMAIN request.interests}
    \ {None}

FilterCandidate(req, city) ==
  /\ \/ req.season = "all_year"
     \/ HasKey(BEST_SEASON, city) /\ DictGet(BEST_SEASON, city, None) = req.season
  /\ \/ req.budget = "variable"
     \/ HasKey(BUDGETS, city) /\ DictGet(BUDGETS, city, None) = req.budget

\* the destinations of the returned results: the last city of every route
Destinations == {results[i].route[Len(results[i].route)] : i \in DOMAIN results}

\* C27: in the fallback (pure filter) classification a city is a recommended candidate iff
\* (season == "all_year" or its best_season equals season) and (budget == "variable" or its
\* budget tier equals budget); with no explicit end, recommend_trip returns one result per
\* such candidate that is reachable from start and none for any other city.
C27_FallbackFilter ==
  (Served /\ ~EXPERTA_AVAILABLE /\ request.end = None)
    => LET start == StartOf(request)
           wanted == {c \in Range(CITIES) :
                        /\ FilterCandidate(request, c)
                        /\ c = start \/ Reachable(start, c)}
       IN  /\ outcome = "returned"
           /\ Len(results) = Cardinality(wanted)
           /\ Destinations = wanted

\* a call without end and without the engine that returned some of the cities, not all
C27_Witness ==
  /\ Served /\ ~EXPERTA_AVAILABLE
  /\ request.end = None
  /\ request.season = "winter" /\ request.budget = "budget"
  /\ results # <<>>
  /\ \E c \in Range(CITIES) : Reachable(StartOf(request), c) /\ c \notin Destinations

====
